---- MODULE Spec2Model ----
(***************************************************************************)
(* Model of the typed query layer of db/src/lib.rs: the Condition compiler *)
(* (Condition::build), the statement builders of Table::insert and         *)
(* Table::select, the bind step and the row marshaller row_to_map,         *)
(* together with the executor they talk to.                                *)
(*                                                                         *)
(* SQL text is a sequence of string pieces, one per piece the format!      *)
(* calls put together; Render gives the text itself.                       *)
(***************************************************************************)
EXTENDS Integers, Sequences, FiniteSets, TLC

VARIABLES
    table,   \* the Table descriptor the callers share
    store,   \* rows of the backend's table, in insertion order
    origin,  \* history: for each stored row, the value map that produced it
    pc,      \* per caller: "idle", "await", "ready" or "returned"
    call,    \* per caller: the locals of its insert or select call
    fin,     \* input of a pure function under check
    fout     \* its output

vars == <<table, store, origin, pc, call, fin, fout>>

-----------------------------------------------------------------------------
(* Bounds *)

MaxLeaves == 3      \* Eq leaves of a Condition tree
MaxStart == 2       \* starting parameter index handed to build
MaxCols == 2        \* columns of a column list handed to row_to_map
MaxRows == 2        \* rows the backend's table may hold
MaxTerms == 1       \* Eq leaves of a condition handed to select in a call
NumCallers == 2     \* concurrent callers

-----------------------------------------------------------------------------
(* Data model *)

DataType == {"Int", "Text", "Bool"}

Column(n, t) == [name |-> n, data_type |-> t]

ValueInt(n) == [tag |-> "Int", i |-> n, s |-> "", b |-> FALSE]
ValueText(t) == [tag |-> "Text", i |-> 0, s |-> t, b |-> FALSE]
ValueBool(t) == [tag |-> "Bool", i |-> 0, s |-> "", b |-> t]
ValueNull == [tag |-> "Null", i |-> 0, s |-> "", b |-> FALSE]

Eq(c, v) == [kind |-> "Eq", col |-> c, val |-> v]
And(l, r) == [kind |-> "And", l |-> l, r |-> r]
Or(l, r) == [kind |-> "Or", l |-> l, r |-> r]
None == [kind |-> "None"]

TableNew(n, cs) == [name |-> n, columns |-> cs]

-----------------------------------------------------------------------------
(* Text *)

RECURSIVE Render(_)
Render(toks) ==
    IF toks = <<>> THEN "" ELSE Head(toks) \o Render(Tail(toks))

RECURSIVE Join(_, _)
Join(strs, sep) ==
    IF Len(strs) = 0 THEN <<>>
    ELSE IF Len(strs) = 1 THEN strs
    ELSE <<Head(strs), sep>> \o Join(Tail(strs), sep)

Placeholder(k) == "$" \o ToString(k)

-----------------------------------------------------------------------------
(* Condition::build *)

BuildEqSwapped(c, v, args, idx) ==
    IF v.tag = "Null"
    THEN [sql |-> <<c, " IS NULL">>, args |-> args, idx |-> idx]
    ELSE [sql |-> <<c, " = ", Placeholder(idx)>>,
          args |-> Append(args, v), idx |-> idx + 1]

BuildEqNullBound(c, v, args, idx) ==
    IF v.tag = "Null"
    THEN [sql |-> <<c, " IS NULL">>, args |-> Append(args, v), idx |-> idx + 1]
    ELSE [sql |-> <<c, " = ", Placeholder(idx + 1)>>,
          args |-> Append(args, v), idx |-> idx + 1]

BuildEq(c, v, args, idx) ==
    IF v.tag = "Null"
    THEN [sql |-> <<c, " IS NULL">>, args |-> args, idx |-> idx]
    ELSE [sql |-> <<c, " = ", Placeholder(idx + 1)>>,
          args |-> Append(args, v), idx |-> idx + 1]

RECURSIVE build(_, _, _)

buildRightFirst(cond, args, idx) ==
    IF cond.kind = "Eq" THEN BuildEq(cond.col, cond.val, args, idx)
    ELSE LET R == build(cond.r, args, idx)
             L == build(cond.l, R.args, R.idx)
             word == IF cond.kind = "And" THEN ") AND (" ELSE ") OR ("
         IN  [sql |-> <<"(">> \o L.sql \o <<word>> \o R.sql \o <<")">>,
              args |-> L.args, idx |-> L.idx]

build(cond, args, idx) ==
    IF cond.kind = "Eq" THEN BuildEq(cond.col, cond.val, args, idx)
    ELSE LET L == build(cond.l, args, idx)
             R == build(cond.r, L.args, L.idx)
             word == IF cond.kind = "And" THEN ") AND (" ELSE ") OR ("
         IN  [sql |-> <<"(">> \o L.sql \o <<word>> \o R.sql \o <<")">>,
              args |-> R.args, idx |-> R.idx]

-----------------------------------------------------------------------------
(* The bind step *)

NativeInt(n) == [ty |-> "int8", null |-> FALSE, i |-> n, s |-> "", b |-> FALSE]
NativeText(t) == [ty |-> "text", null |-> FALSE, i |-> 0, s |-> t, b |-> FALSE]
NativeBool(t) == [ty |-> "bool", null |-> FALSE, i |-> 0, s |-> "", b |-> t]
NativeNull(ty) == [ty |-> ty, null |-> TRUE, i |-> 0, s |-> "", b |-> FALSE]

\* q.bind(..): one more argument on the query
bind(q, v) ==
    [q EXCEPT !.args =
        Append(@, CASE v.tag = "Int" -> NativeInt(v.i)
                    [] v.tag = "Text" -> NativeText(v.s)
                    [] v.tag = "Bool" -> NativeBool(v.b)
                    [] OTHER -> NativeNull("int4"))]

RECURSIVE BindAll(_, _)
BindAll(q, vs) ==
    IF vs = <<>> THEN q ELSE BindAll(bind(q, Head(vs)), Tail(vs))

query(sql) == [sql |-> sql, args |-> <<>>]

-----------------------------------------------------------------------------
(* Table::select, up to the round trip *)

SelectStatementFromOne(t, condition) ==
    LET c == IF condition.kind = "None"
             THEN [sql |-> <<>>, args |-> <<>>, idx |-> 1]
             ELSE build(condition, <<>>, 1)
        sql == <<"SELECT * FROM ", t.name>>
               \o (IF condition.kind = "None" THEN <<>> ELSE <<" WHERE ">> \o c.sql)
    IN  BindAll(query(sql), c.args)

SelectStatement(t, condition) ==
    LET c == IF condition.kind = "None"
             THEN [sql |-> <<>>, args |-> <<>>, idx |-> 0]
             ELSE build(condition, <<>>, 0)
        sql == <<"SELECT * FROM ", t.name>>
               \o (IF condition.kind = "None" THEN <<>> ELSE <<" WHERE ">> \o c.sql)
    IN  BindAll(query(sql), c.args)

-----------------------------------------------------------------------------
(* Table::insert, up to the round trip *)

NoValues == [n \in {} |-> ValueNull]

Remove(values, k) == [n \in DOMAIN values \ {k} |-> values[n]]

InsertStart == [cols |-> <<>>, placeholders |-> <<>>, binds |-> <<>>, idx |-> 1]

InsertColumnNullBound(c, values, acc) ==
    IF c.name \in DOMAIN values
    THEN [acc EXCEPT !.cols = Append(@, c.name),
                     !.placeholders = Append(@, Placeholder(acc.idx)),
                     !.idx = @ + 1,
                     !.binds = Append(@, values[c.name])]
    ELSE acc

\* the body of the loop over self.columns, for column c
InsertColumn(c, values, acc) ==
    IF c.name \in DOMAIN values
    THEN LET v == values[c.name]
         IN  IF v.tag = "Null"
             THEN [acc EXCEPT !.cols = Append(@, c.name),
                              !.placeholders = Append(@, "NULL")]
             ELSE [acc EXCEPT !.cols = Append(@, c.name),
                              !.placeholders = Append(@, Placeholder(acc.idx)),
                              !.idx = @ + 1,
                              !.binds = Append(@, v)]
    ELSE acc

RECURSIVE InsertLoop(_, _, _)
InsertLoop(columns, values, acc) ==
    IF columns = <<>> THEN acc
    ELSE InsertLoop(Tail(columns), Remove(values, Head(columns).name),
                    InsertColumn(Head(columns), values, acc))

\* unknown keys of the map listed after the table's columns
InsertStatementPassThrough(t, values) ==
    LET acc == InsertLoop(t.columns, values, InsertStart)
        rest == DOMAIN values \ {t.columns[i].name : i \in 1..Len(t.columns)}
        more == IF rest = {} THEN <<>> ELSE <<CHOOSE k \in rest : TRUE>>
        sql == <<"INSERT INTO ", t.name, " (">> \o Join(acc.cols \o more, ", ")
               \o <<") VALUES (">> \o Join(acc.placeholders, ", ")
               \o <<") RETURNING *">>
    IN  BindAll(query(sql), acc.binds)

InsertStatement(t, values) ==
    LET acc == InsertLoop(t.columns, values, InsertStart)
        sql == <<"INSERT INTO ", t.name, " (">> \o Join(acc.cols, ", ")
               \o <<") VALUES (">> \o Join(acc.placeholders, ", ")
               \o <<") RETURNING *">>
    IN  BindAll(query(sql), acc.binds)

-----------------------------------------------------------------------------
(* The executor: a backend holding the relation of tests/postgres.rs, with *)
(* nullable columns, no defaults and no keys. It reads the statement text  *)
(* and the bound arguments, nothing else.                                  *)

DbTable == "items"
DbColumns == [id |-> "int8", name |-> "text"]

IsPlaceholder(tok, most) == \E k \in 0..most : tok = Placeholder(k)
NumberOf(tok, most) == CHOOSE k \in 0..most : tok = Placeholder(k)

\* position of the first tok in toks, 0 when there is none
First(toks, tok) ==
    IF \E i \in 1..Len(toks) : toks[i] = tok
    THEN CHOOSE i \in 1..Len(toks) :
            toks[i] = tok /\ \A j \in 1..(i - 1) : toks[j] # tok
    ELSE 0

IsComma(tok) == tok = ", "
NotComma(tok) == tok # ", "

\* the entries of a comma separated list; the list must alternate
ListItems(toks) == SelectSeq(toks, NotComma)
ListOk(toks) ==
    \A i \in 1..Len(toks) : IsComma(toks[i]) <=> (i % 2 = 0 /\ i < Len(toks))

NoTree == [kind |-> "none"]
ParseFail == [ok |-> FALSE, tree |-> NoTree, next |-> 0]

\* recursive descent over a fully parenthesised clause starting at pos
RECURSIVE ParseClause(_, _)
ParseClause(toks, pos) ==
    LET n == Len(toks) IN
    IF pos > n THEN ParseFail
    ELSE IF toks[pos] = "("
    THEN LET L == ParseClause(toks, pos + 1) IN
         IF ~L.ok \/ L.next > n THEN ParseFail
         ELSE IF toks[L.next] \notin {") AND (", ") OR ("} THEN ParseFail
         ELSE LET R == ParseClause(toks, L.next + 1) IN
              IF ~R.ok \/ R.next > n THEN ParseFail
              ELSE IF toks[R.next] # ")" THEN ParseFail
              ELSE [ok |-> TRUE, next |-> R.next + 1,
                    tree |-> [kind |-> IF toks[L.next] = ") AND ("
                                       THEN "and" ELSE "or",
                              l |-> L.tree, r |-> R.tree]]
    ELSE IF pos + 1 <= n /\ toks[pos + 1] = " IS NULL"
    THEN [ok |-> TRUE, next |-> pos + 2,
          tree |-> [kind |-> "isnull", col |-> toks[pos], k |-> 0]]
    ELSE IF pos + 2 <= n /\ toks[pos + 1] = " = " /\ IsPlaceholder(toks[pos + 2], n)
    THEN [ok |-> TRUE, next |-> pos + 3,
          tree |-> [kind |-> "eq", col |-> toks[pos],
                    k |-> NumberOf(toks[pos + 2], n)]]
    ELSE ParseFail

RECURSIVE Atoms(_)
Atoms(tree) ==
    IF tree.kind \in {"and", "or"} THEN Atoms(tree.l) \cup Atoms(tree.r)
    ELSE {tree}

\* the parameters a statement uses must be exactly $1..$n, n the number bound
ParamsOk(used, args) == used = 1..Len(args)

ClauseOk(tree, args) ==
    /\ \A a \in Atoms(tree) : a.col \in DOMAIN DbColumns
    /\ ParamsOk({a.k : a \in {b \in Atoms(tree) : b.kind = "eq"}}, args)
    /\ \A a \in Atoms(tree) :
          a.kind = "eq" => args[a.k].null \/ args[a.k].ty = DbColumns[a.col]

\* a comparison with NULL is never true, and the clause has no negation
RECURSIVE Holds(_, _, _)
Holds(tree, row, args) ==
    CASE tree.kind = "and" -> Holds(tree.l, row, args) /\ Holds(tree.r, row, args)
      [] tree.kind = "or" -> Holds(tree.l, row, args) \/ Holds(tree.r, row, args)
      [] tree.kind = "isnull" -> row[tree.col].null
      [] OTHER -> /\ ~row[tree.col].null
                  /\ ~args[tree.k].null
                  /\ row[tree.col].i = args[tree.k].i
                  /\ row[tree.col].s = args[tree.k].s
                  /\ row[tree.col].b = args[tree.k].b

Rejected == [ok |-> FALSE, err |-> "Database", rows |-> <<>>]

ExecuteSelect(stmt, rows) ==
    LET sql == stmt.sql IN
    IF Len(sql) < 2 \/ sql[2] # DbTable THEN Rejected
    ELSE IF Len(sql) = 2
    THEN IF stmt.args = <<>> THEN [ok |-> TRUE, err |-> "", rows |-> rows]
         ELSE Rejected
    ELSE IF Len(sql) = 3 \/ sql[3] # " WHERE " THEN Rejected
    ELSE LET where == SubSeq(sql, 4, Len(sql))
             P == ParseClause(where, 1)
             Matches(row) == Holds(P.tree, row, stmt.args)
         IN  IF ~P.ok \/ P.next # Len(where) + 1 THEN Rejected
             ELSE IF ~ClauseOk(P.tree, stmt.args) THEN Rejected
             ELSE [ok |-> TRUE, err |-> "", rows |-> SelectSeq(rows, Matches)]

\* Rejected, or the row an INSERT .. RETURNING * stores and returns
ExecuteInsert(stmt) ==
    LET sql == stmt.sql
        open == First(sql, " (")
        mid == First(sql, ") VALUES (")
        close == First(sql, ") RETURNING *")
    IN
    IF Len(sql) < 2 \/ sql[2] # DbTable THEN Rejected
    ELSE IF ~(open = 3 /\ open < mid /\ mid < close /\ close = Len(sql))
    THEN Rejected
    ELSE LET colToks == SubSeq(sql, open + 1, mid - 1)
             valToks == SubSeq(sql, mid + 1, close - 1)
             cols == ListItems(colToks)
             vals == ListItems(valToks)
             n == Len(cols)
             bound == {i \in 1..n : vals[i] # "NULL"}
         IN
         IF ~ListOk(colToks) \/ ~ListOk(valToks) \/ n = 0 \/ Len(vals) # n
         THEN Rejected
         ELSE IF \E i \in 1..n : cols[i] \notin DOMAIN DbColumns THEN Rejected
         ELSE IF \E i, j \in 1..n : i # j /\ cols[i] = cols[j] THEN Rejected
         ELSE IF \E i \in bound : ~IsPlaceholder(vals[i], Len(sql)) THEN Rejected
         ELSE IF ~ParamsOk({NumberOf(vals[i], Len(sql)) : i \in bound}, stmt.args)
         THEN Rejected
         ELSE IF \E i \in bound :
                    LET a == stmt.args[NumberOf(vals[i], Len(sql))]
                    IN  ~a.null /\ a.ty # DbColumns[cols[i]]
         THEN Rejected
         ELSE LET At(c) == CHOOSE i \in 1..n : cols[i] = c
                  row == [c \in DOMAIN DbColumns |->
                            IF \E i \in 1..n : cols[i] = c
                            THEN IF At(c) \in bound
                                 THEN LET a == stmt.args[NumberOf(vals[At(c)], Len(sql))]
                                      IN  [a EXCEPT !.ty = DbColumns[c]]
                                 ELSE NativeNull(DbColumns[c])
                            ELSE NativeNull(DbColumns[c])]
              IN  [ok |-> TRUE, err |-> "", rows |-> <<row>>]

-----------------------------------------------------------------------------
(* Inputs *)

Items == TableNew("items", <<Column("id", "Int"), Column("name", "Text")>>)

CondLeaves ==
    {Eq("a", ValueInt(1)), Eq("b", ValueText("x")), Eq("c", ValueNull), Eq("a", ValueBool(TRUE))}

RECURSIVE CondsOfSize(_, _)
CondsOfSize(leaves, n) ==
    IF n = 1 THEN leaves
    ELSE UNION {UNION {{And(l, r), Or(l, r)} :
                          l \in CondsOfSize(leaves, k),
                          r \in CondsOfSize(leaves, n - k)} : k \in 1..(n - 1)}

Conditions(leaves, n) == UNION {CondsOfSize(leaves, k) : k \in 1..n}

PriorArgs == {<<>>, <<ValueInt(7)>>}

NoBuild == [sql |-> <<>>, args |-> <<>>, idx |-> 0]

-----------------------------------------------------------------------------
(* The compiler as a function: build from any starting point, and the      *)
(* statement select makes of a condition.                                  *)

Idle == [c \in {} |-> 0]

InitCompile ==
    /\ table = Items
    /\ store = <<>>
    /\ origin = <<>>
    /\ pc = Idle
    /\ call = Idle
    /\ fin \in [cond : Conditions(CondLeaves, MaxLeaves),
                args : PriorArgs, idx : 0..MaxStart]
    /\ fout = [done |-> "no", r |-> NoBuild, stmt |-> query(<<>>)]

Compile ==
    /\ fout.done = "no"
    /\ fout' = [fout EXCEPT !.done = "build",
                            !.r = build(fin.cond, fin.args, fin.idx)]
    /\ UNCHANGED <<table, store, origin, pc, call, fin>>

CompileSelect ==
    /\ fout.done = "no"
    /\ fout' = [fout EXCEPT !.done = "select",
                            !.stmt = SelectStatement(table, fin.cond)]
    /\ UNCHANGED <<table, store, origin, pc, call, fin>>

NextCompile == Compile \/ CompileSelect

SpecCompile == InitCompile /\ [][NextCompile]_vars

-----------------------------------------------------------------------------
(* The row marshaller *)

NativeOf(data_type) ==
    CASE data_type = "Int" -> "int8"
      [] data_type = "Text" -> "text"
      [] OTHER -> "bool"

\* row.try_get::<Option<T>, _>(name), T the Rust type with native type ty:
\* no such field and a non-null field of another type are errors, a NULL
\* field decodes to the absent option whatever its type
try_get(row, name, ty) ==
    IF name \notin DOMAIN row THEN [ok |-> FALSE, err |-> "ColumnNotFound",
                                    some |-> FALSE, v |-> NativeNull(ty)]
    ELSE IF row[name].null THEN [ok |-> TRUE, err |-> "",
                                 some |-> FALSE, v |-> NativeNull(ty)]
    ELSE IF row[name].ty # ty THEN [ok |-> FALSE, err |-> "ColumnDecode",
                                    some |-> FALSE, v |-> NativeNull(ty)]
    ELSE [ok |-> TRUE, err |-> "", some |-> TRUE, v |-> row[name]]

ColumnValueLenient(row, col) ==
    LET got == try_get(row, col.name, NativeOf(col.data_type))
    IN  [ok |-> TRUE, err |-> "",
         val |-> IF ~got.ok \/ ~got.some THEN ValueNull
                 ELSE [tag |-> col.data_type,
                       i |-> got.v.i, s |-> got.v.s, b |-> got.v.b]]

\* the match on col.data_type: Ok(the Value) or the error of try_get
ColumnValue(row, col) ==
    LET got == try_get(row, col.name, NativeOf(col.data_type))
    IN  IF ~got.ok THEN [ok |-> FALSE, err |-> got.err, val |-> ValueNull]
        ELSE [ok |-> TRUE, err |-> "",
              val |-> IF ~got.some THEN ValueNull
                      ELSE [tag |-> col.data_type,
                            i |-> got.v.i, s |-> got.v.s, b |-> got.v.b]]

NoMap == [n \in {} |-> ValueNull]

MapInsert(map, k, v) ==
    [n \in DOMAIN map \cup {k} |-> IF n = k THEN v ELSE map[n]]

RECURSIVE RowToMapFrom(_, _, _)
RowToMapFrom(row, columns, map) ==
    IF columns = <<>> THEN [ok |-> TRUE, err |-> "", map |-> map]
    ELSE LET val == ColumnValue(row, Head(columns))
         IN  IF ~val.ok THEN [ok |-> FALSE, err |-> val.err, map |-> NoMap]
             ELSE RowToMapFrom(row, Tail(columns),
                               MapInsert(map, Head(columns).name, val.val))

row_to_map(row, columns) == RowToMapFrom(row, columns, NoMap)

-----------------------------------------------------------------------------
(* The marshaller as a function of a native row and a column list *)

FieldNames == {"id", "name"}

NativeFields ==
    {NativeInt(1), NativeText("x"), NativeBool(TRUE),
     NativeNull("int8"), NativeNull("text"), NativeNull("bool")}

NativeRows ==
    UNION {[names -> NativeFields] : names \in SUBSET FieldNames}

ColumnLists ==
    UNION {[1..n -> {Column(f, t) : f \in FieldNames, t \in DataType}] :
              n \in 0..MaxCols}

NoResult == [ok |-> FALSE, err |-> "", map |-> NoMap]

InitMarshal ==
    /\ table = Items
    /\ store = <<>>
    /\ origin = <<>>
    /\ pc = Idle
    /\ call = Idle
    /\ fin \in [row : NativeRows, columns : ColumnLists]
    /\ fout = [done |-> "no", res |-> NoResult]

Marshal ==
    /\ fout.done = "no"
    /\ fout' = [done |-> "row_to_map", res |-> row_to_map(fin.row, fin.columns)]
    /\ UNCHANGED <<table, store, origin, pc, call, fin>>

NextMarshal == Marshal

SpecMarshal == InitMarshal /\ [][NextMarshal]_vars

-----------------------------------------------------------------------------
(* Calls of insert and select against the executor. A call builds its      *)
(* statement and sends it, is suspended until the executor answers, and    *)
(* then marshals the answer.                                               *)

NoResponse == [ok |-> FALSE, err |-> "", rows |-> <<>>]
NoReturn == [ok |-> FALSE, err |-> "", rows |-> <<>>]

NoCall ==
    [op |-> "none", values |-> NoValues, condition |-> None, sent |-> <<>>,
     resp |-> NoResponse, fault |-> FALSE, row |-> 0, result |-> NoReturn]

Names(t) == {t.columns[i].name : i \in 1..Len(t.columns)}

\* what the value map m says a row of table t holds
Expected(t, m) ==
    [c \in Names(t) |-> IF c \in DOMAIN m THEN m[c] ELSE ValueNull]

Inserting == {p \in DOMAIN pc : pc[p] = "await" /\ call[p].op = "insert"}

InsertCallDrain(p, values) ==
    /\ pc[p] = "idle"
    /\ Len(store) + Cardinality(Inserting) < MaxRows
    /\ call' = [call EXCEPT ![p] =
                   [NoCall EXCEPT !.op = "insert", !.values = values,
                                  !.sent = <<InsertStatement(table, values)>>]]
    /\ pc' = [pc EXCEPT ![p] = "await"]
    /\ table' = [table EXCEPT !.columns =
                    SelectSeq(@, LAMBDA c : c.name \notin DOMAIN values)]
    /\ UNCHANGED <<store, origin, fin, fout>>

\* insert, lines 80-107: the statement is built, bound and sent
InsertCall(p, values) ==
    /\ pc[p] = "idle"
    /\ Len(store) + Cardinality(Inserting) < MaxRows
    /\ call' = [call EXCEPT ![p] =
                   [NoCall EXCEPT !.op = "insert", !.values = values,
                                  !.sent = <<InsertStatement(table, values)>>]]
    /\ pc' = [pc EXCEPT ![p] = "await"]
    /\ UNCHANGED <<table, store, origin, fin, fout>>

\* select, lines 116-128: the statement is built, bound and sent
SelectCall(p, condition) ==
    /\ pc[p] = "idle"
    /\ call' = [call EXCEPT ![p] =
                   [NoCall EXCEPT !.op = "select", !.condition = condition,
                                  !.sent = <<SelectStatement(table, condition)>>]]
    /\ pc' = [pc EXCEPT ![p] = "await"]
    /\ UNCHANGED <<table, store, origin, fin, fout>>

\* the executor runs the statement of caller p and answers
Execute(p) ==
    /\ pc[p] = "await"
    /\ LET stmt == call[p].sent[Len(call[p].sent)]
           insert == stmt.sql[1] = "INSERT INTO "
           r == IF insert THEN ExecuteInsert(stmt) ELSE ExecuteSelect(stmt, store)
       IN  IF insert /\ r.ok
           THEN /\ store' = Append(store, r.rows[1])
                /\ origin' = Append(origin,
                                    [acked |-> FALSE,
                                     expect |-> Expected(table, call[p].values)])
                /\ call' = [call EXCEPT ![p].resp = r, ![p].row = Len(store) + 1]
           ELSE /\ call' = [call EXCEPT ![p].resp = r]
                /\ UNCHANGED <<store, origin>>
    /\ pc' = [pc EXCEPT ![p] = "ready"]
    /\ UNCHANGED <<table, fin, fout>>

\* the executor cannot be reached: an error and no effect
Fail(p) ==
    /\ pc[p] = "await"
    /\ call' = [call EXCEPT ![p].resp = [ok |-> FALSE, err |-> "Io", rows |-> <<>>],
                            ![p].fault = TRUE]
    /\ pc' = [pc EXCEPT ![p] = "ready"]
    /\ UNCHANGED <<table, store, origin, fin, fout>>

InsertReturnRetry(p) ==
    /\ pc[p] = "ready"
    /\ call[p].op = "insert"
    /\ IF ~call[p].resp.ok
       THEN /\ call' = [call EXCEPT ![p].sent = Append(@, @[1])]
            /\ pc' = [pc EXCEPT ![p] = "await"]
            /\ UNCHANGED origin
       ELSE LET m == row_to_map(call[p].resp.rows[1], table.columns)
            IN  /\ call' = [call EXCEPT ![p].result =
                               [ok |-> m.ok, err |-> m.err,
                                rows |-> IF m.ok THEN <<m.map>> ELSE <<>>]]
                /\ pc' = [pc EXCEPT ![p] = "returned"]
                /\ origin' = [i \in 1..Len(origin) |->
                                 IF i = call[p].row /\ m.ok
                                 THEN [origin[i] EXCEPT !.acked = TRUE]
                                 ELSE origin[i]]
    /\ UNCHANGED <<table, store, fin, fout>>

\* insert, lines 107-108: fetch_one's error, or the returned row marshalled
InsertReturn(p) ==
    /\ pc[p] = "ready"
    /\ call[p].op = "insert"
    /\ LET resp == call[p].resp
           m == row_to_map(resp.rows[1], table.columns)
           res == IF ~resp.ok THEN [ok |-> FALSE, err |-> resp.err, rows |-> <<>>]
                  ELSE IF resp.rows = <<>>
                  THEN [ok |-> FALSE, err |-> "RowNotFound", rows |-> <<>>]
                  ELSE [ok |-> m.ok, err |-> m.err,
                        rows |-> IF m.ok THEN <<m.map>> ELSE <<>>]
       IN  /\ call' = [call EXCEPT ![p].result = res]
           /\ origin' = [i \in 1..Len(origin) |->
                            IF i = call[p].row /\ res.ok
                            THEN [origin[i] EXCEPT !.acked = TRUE]
                            ELSE origin[i]]
    /\ pc' = [pc EXCEPT ![p] = "returned"]
    /\ UNCHANGED <<table, store, fin, fout>>

RECURSIVE MarshalRows(_, _, _)

MarshalRowsSkipFirst(rows, columns, result) ==
    IF rows = <<>> THEN [ok |-> TRUE, err |-> "", rows |-> result]
    ELSE IF result = <<>> /\ Len(rows) = 1
    THEN [ok |-> TRUE, err |-> "", rows |-> result]
    ELSE LET m == row_to_map(Head(rows), columns)
         IN  IF ~m.ok THEN [ok |-> FALSE, err |-> m.err, rows |-> <<>>]
             ELSE MarshalRows(Tail(rows), columns, Append(result, m.map))

\* the loop over the fetched rows: the first row_to_map error ends it
MarshalRows(rows, columns, result) ==
    IF rows = <<>> THEN [ok |-> TRUE, err |-> "", rows |-> result]
    ELSE LET m == row_to_map(Head(rows), columns)
         IN  IF ~m.ok THEN [ok |-> FALSE, err |-> m.err, rows |-> <<>>]
             ELSE MarshalRows(Tail(rows), columns, Append(result, m.map))

\* select, lines 128-133
SelectReturn(p) ==
    /\ pc[p] = "ready"
    /\ call[p].op = "select"
    /\ LET resp == call[p].resp
           res == IF ~resp.ok THEN [ok |-> FALSE, err |-> resp.err, rows |-> <<>>]
                  ELSE MarshalRows(resp.rows, table.columns, <<>>)
       IN  call' = [call EXCEPT ![p].result = res]
    /\ pc' = [pc EXCEPT ![p] = "returned"]
    /\ UNCHANGED <<table, store, origin, fin, fout>>

\* the caller has its result and may call again
Done(p) ==
    /\ pc[p] = "returned"
    /\ pc' = [pc EXCEPT ![p] = "idle"]
    /\ call' = [call EXCEPT ![p] = NoCall]
    /\ UNCHANGED <<table, store, origin, fin, fout>>

-----------------------------------------------------------------------------
(* One caller at a time *)

Reordered == TableNew("items", <<Column("name", "Text"), Column("id", "Int")>>)
Misdeclared == TableNew("items", <<Column("id", "Int"), Column("name", "Bool")>>)
Extra == TableNew("items", <<Column("id", "Int"), Column("zz", "Text")>>)

Tables == {Items, Reordered, Misdeclared, Extra}

MapValues == {ValueInt(1), ValueText("x"), ValueNull}

ValueMaps ==
    UNION {[keys -> MapValues] : keys \in SUBSET {"id", "name"}}
    \cup {[k \in keys \cup {"zz"} |-> IF k = "zz" THEN ValueInt(1) ELSE m[k]] :
             keys \in SUBSET {"id", "name"}, m \in [{"id", "name"} -> MapValues]}

CallLeaves ==
    {Eq("id", ValueInt(1)), Eq("name", ValueText("x")), Eq("name", ValueNull),
     Eq("id", ValueNull), Eq("zz", ValueInt(1)), Eq("id", ValueText("x"))}

CallConditions == {None} \cup Conditions(CallLeaves, MaxTerms)

Init ==
    /\ table \in Tables
    /\ store = <<>>
    /\ origin = <<>>
    /\ pc = [p \in {1} |-> "idle"]
    /\ call = [p \in {1} |-> NoCall]
    /\ fin = 0
    /\ fout = 0

Callers == DOMAIN pc

Inserts == \E p \in Callers, values \in ValueMaps : InsertCall(p, values)
Selects == \E p \in Callers, condition \in CallConditions : SelectCall(p, condition)
Executes == \E p \in Callers : Execute(p)
Fails == \E p \in Callers : Fail(p)
InsertReturns == \E p \in Callers : InsertReturn(p)
SelectReturns == \E p \in Callers : SelectReturn(p)
Dones == \E p \in Callers : Done(p)

Next ==
    \/ Inserts
    \/ Selects
    \/ Executes
    \/ Fails
    \/ InsertReturns
    \/ SelectReturns
    \/ Dones

Spec == Init /\ [][Next]_vars

-----------------------------------------------------------------------------
(* Several callers sharing the Table descriptor *)

SharedMaps ==
    {[id |-> ValueInt(1), name |-> ValueText("x")],
     [id |-> ValueInt(1), name |-> ValueText("x"), zz |-> ValueInt(1)]}

SharedConditions ==
    {None,
     And(Eq("id", ValueInt(1)), Or(Eq("name", ValueText("x")), Eq("id", ValueNull)))}

InitShared ==
    /\ table = Items
    /\ store = <<>>
    /\ origin = <<>>
    /\ pc = [p \in 1..NumCallers |-> "idle"]
    /\ call = [p \in 1..NumCallers |-> NoCall]
    /\ fin = 0
    /\ fout = 0

SharedInserts == \E p \in Callers, values \in SharedMaps : InsertCall(p, values)
SharedSelects ==
    \E p \in Callers, condition \in SharedConditions : SelectCall(p, condition)

NextShared ==
    \/ SharedInserts
    \/ SharedSelects
    \/ Executes
    \/ Fails
    \/ InsertReturns
    \/ SelectReturns
    \/ Dones

SpecShared == InitShared /\ [][NextShared]_vars

-----------------------------------------------------------------------------
(* Reading a compiled text back *)

\* positions of the placeholders of toks, left to right
RECURSIVE PlaceholderPositions(_, _)
PlaceholderPositions(toks, n) ==
    IF n = 0 THEN <<>>
    ELSE PlaceholderPositions(toks, n - 1)
         \o (IF IsPlaceholder(toks[n], Len(toks) + MaxStart) THEN <<n>> ELSE <<>>)

\* the Eq leaves of a condition, left to right
RECURSIVE LeavesOf(_)
LeavesOf(cond) ==
    IF cond.kind = "Eq" THEN <<cond>> ELSE LeavesOf(cond.l) \o LeavesOf(cond.r)

IsBound(leaf) == leaf.val.tag # "Null"

\* a bound argument carries the value v
Carries(a, v) ==
    /\ ~a.null
    /\ a.ty = (CASE v.tag = "Int" -> "int8" [] v.tag = "Text" -> "text"
                 [] OTHER -> "bool")
    /\ a.i = v.i /\ a.s = v.s /\ a.b = v.b

WhereOf(sql) == SubSeq(sql, 4, Len(sql))

-----------------------------------------------------------------------------
(* C1: compiling And(l, r) appends params(l) then params(r), the right     *)
(* side compiled with the index the left side left behind, and gives the   *)
(* text "(<l>) AND (<r>)"; Or(l, r) likewise with OR.                      *)
C1_AndOrConcat ==
    (fout.done = "build" /\ fin.cond.kind \in {"And", "Or"}) =>
        LET l == build(fin.cond.l, <<>>, fin.idx)
            r == build(fin.cond.r, <<>>, l.idx)
            word == IF fin.cond.kind = "And" THEN ") AND (" ELSE ") OR ("
        IN  /\ fout.r.args = fin.args \o l.args \o r.args
            /\ Render(fout.r.sql)
                 = "(" \o Render(l.sql) \o word \o Render(r.sql) \o ")"
            /\ fout.r.idx = r.idx

C1_Witness ==
    /\ fout.done = "build"
    /\ fin.cond.kind = "And"
    /\ fin.cond.l.kind = "Or"
    /\ Len(fout.r.args) = Len(fin.args) + MaxLeaves
    /\ fin.args # <<>>

(* C2: compiling Eq(c, v) with v not null appends exactly v to the         *)
(* parameter list, raises the running index by exactly one and gives the   *)
(* text "<c> = $<k>" with k the raised index.                              *)
C2_EqBinds ==
    (fout.done = "build" /\ fin.cond.kind = "Eq" /\ fin.cond.val.tag # "Null") =>
        /\ fout.r.args = Append(fin.args, fin.cond.val)
        /\ fout.r.idx = fin.idx + 1
        /\ Render(fout.r.sql) = fin.cond.col \o " = $" \o ToString(fout.r.idx)

C2_Witness ==
    /\ fout.done = "build"
    /\ fin.cond = Eq("b", ValueText("x"))
    /\ fin.idx = MaxStart
    /\ fin.args # <<>>
    /\ Len(fout.r.args) = 2

(* C3: compiling Eq(c, Null) gives the text "<c> IS NULL" and leaves the   *)
(* parameter list and the running index as they were.                      *)
C3_EqNull ==
    (fout.done = "build" /\ fin.cond.kind = "Eq" /\ fin.cond.val.tag = "Null") =>
        /\ Render(fout.r.sql) = fin.cond.col \o " IS NULL"
        /\ fout.r.args = fin.args
        /\ fout.r.idx = fin.idx

C3_Witness ==
    /\ fout.done = "build"
    /\ fin.cond = Eq("c", ValueNull)
    /\ fin.idx = MaxStart
    /\ fout.r.args = <<ValueInt(7)>>

NestedExample ==
    And(Eq("a", ValueInt(1)), Or(Eq("b", ValueText("x")), Eq("c", ValueNull)))

(* C4: in the statement select makes of a condition, the placeholders of   *)
(* the WHERE clause read left to right are $1..$n, n the number of bound   *)
(* arguments and of non-null Eq leaves, and the i-th argument is the value *)
(* of the leaf whose column stands before placeholder $i.                  *)
C4_SelectPlaceholders ==
    (fout.done = "select") =>
        LET where == WhereOf(fout.stmt.sql)
            at == PlaceholderPositions(where, Len(where))
            bound == SelectSeq(LeavesOf(fin.cond), IsBound)
            n == Len(fout.stmt.args)
        IN  /\ Len(at) = n
            /\ Len(bound) = n
            /\ \A i \in 1..n :
                  /\ where[at[i]] = Placeholder(i)
                  /\ where[at[i] - 2] = bound[i].col
                  /\ Carries(fout.stmt.args[i], bound[i].val)
            /\ fin.cond = NestedExample =>
                  /\ Render(fout.stmt.sql) = "SELECT * FROM items WHERE "
                        \o "(a = $1) AND ((b = $2) OR (c IS NULL))"
                  /\ fout.stmt.args = <<NativeInt(1), NativeText("x")>>

C4_Witness ==
    /\ fout.done = "select"
    /\ fin.cond = NestedExample
    /\ Len(fout.stmt.args) = 2

\* the field of column col is missing, or is not NULL and of another type
Unreadable(row, col) ==
    \/ col.name \notin DOMAIN row
    \/ ~row[col.name].null /\ row[col.name].ty # NativeOf(col.data_type)

(* C9: row_to_map either returns a map with exactly one entry per declared *)
(* column name, Value::Null for a NULL field and otherwise the native      *)
(* scalar in the variant of the declared type, or, when some declared      *)
(* column's field is missing or of another native type, an error and no    *)
(* map.                                                                    *)
C9_RowToMap ==
    (fout.done = "row_to_map") =>
        LET cols == fin.columns
            row == fin.row
            res == fout.res
        IN  IF \E i \in 1..Len(cols) : Unreadable(row, cols[i])
            THEN ~res.ok /\ res.err # "" /\ DOMAIN res.map = {}
            ELSE /\ res.ok
                 /\ DOMAIN res.map = {cols[i].name : i \in 1..Len(cols)}
                 /\ \A i \in 1..Len(cols) :
                       LET f == row[cols[i].name]
                           v == res.map[cols[i].name]
                       IN  IF f.null THEN v = ValueNull
                           ELSE /\ v.tag = cols[i].data_type
                                /\ v.i = f.i /\ v.s = f.s /\ v.b = f.b

C9_Witness ==
    /\ fout.done = "row_to_map"
    /\ fout.res.ok
    /\ Len(fin.columns) = MaxCols
    /\ \E i \in 1..Len(fin.columns) : fout.res.map[fin.columns[i].name] = ValueNull
    /\ \E i \in 1..Len(fin.columns) : fout.res.map[fin.columns[i].name].tag = "Bool"

C9_WitnessError ==
    /\ fout.done = "row_to_map"
    /\ ~fout.res.ok
    /\ fout.res.err = "ColumnDecode"
    /\ Len(fin.columns) = MaxCols
    /\ ~Unreadable(fin.row, fin.columns[1])

-----------------------------------------------------------------------------
(* Statements of calls *)

InFlight(p) == pc[p] \in {"await", "ready", "returned"}

ColumnList(sql) == ListItems(SubSeq(sql, 4, First(sql, ") VALUES (") - 1))
ValuesList(sql) ==
    ListItems(SubSeq(sql, First(sql, ") VALUES (") + 1, Len(sql) - 1))

DeclaredNames(t) == [i \in 1..Len(t.columns) |-> t.columns[i].name]

(* C5: the statement of insert lists exactly the table's columns present   *)
(* in the value map, in declared order; its VALUES list has one entry per  *)
(* listed column, NULL for a Null value and otherwise the next of the      *)
(* placeholders $1..$n, and the binds are the non-null values in that      *)
(* order; with no column present both lists are empty.                     *)
C5_InsertStatement ==
    \A p \in Callers : (InFlight(p) /\ call[p].op = "insert") =>
        LET m == call[p].values
            stmt == call[p].sent[1]
            cols == ColumnList(stmt.sql)
            vals == ValuesList(stmt.sql)
            Present(n) == n \in DOMAIN m
            Bound(i) == m[cols[i]].tag # "Null"
            Rank(i) == Cardinality({j \in 1..i : Bound(j)})
        IN  /\ stmt.sql[1] = "INSERT INTO " /\ stmt.sql[2] = table.name
            /\ stmt.sql[3] = " (" /\ stmt.sql[Len(stmt.sql)] = ") RETURNING *"
            /\ cols = SelectSeq(DeclaredNames(table), Present)
            /\ Len(vals) = Len(cols)
            /\ Len(stmt.args) = Rank(Len(cols))
            /\ \A i \in 1..Len(cols) :
                  IF Bound(i)
                  THEN /\ vals[i] = Placeholder(Rank(i))
                       /\ Carries(stmt.args[Rank(i)], m[cols[i]])
                  ELSE vals[i] = "NULL"
            /\ (DOMAIN m \cap Names(table) = {}) =>
                  Render(stmt.sql) = "INSERT INTO items () VALUES () RETURNING *"

C5_Witness ==
    \E p \in Callers :
        /\ pc[p] = "await" /\ call[p].op = "insert"
        /\ table = Reordered
        /\ DOMAIN call[p].values = {"id", "name", "zz"}
        /\ Render(call[p].sent[1].sql)
             = "INSERT INTO items (name, id) VALUES (NULL, $1) RETURNING *"
        /\ call[p].sent[1].args = <<NativeInt(1)>>

C5_WitnessEmpty ==
    \E p \in Callers :
        /\ pc[p] = "await" /\ call[p].op = "insert"
        /\ DOMAIN call[p].values = {}

\* the column names a call refers to that its table does not declare
Unknown(p) ==
    (IF call[p].op = "insert" THEN DOMAIN call[p].values
     ELSE IF call[p].condition.kind = "None" THEN {}
     ELSE {LeavesOf(call[p].condition)[i].col :
              i \in 1..Len(LeavesOf(call[p].condition))})
    \ Names(table)

Tokens(sql) == {sql[i] : i \in 1..Len(sql)}

(* C6, as stated: every column name of a Condition or of an insert value   *)
(* map that the Table does not declare appears in the statement sent to    *)
(* the executor.                                                           *)
C6_UnknownPassedThrough ==
    \A p \in Callers : InFlight(p) =>
        Unknown(p) \subseteq Tokens(call[p].sent[1].sql)

Restrict(m, keys) == [k \in DOMAIN m \cap keys |-> m[k]]

(* C6, amended: no column name is validated and the statement is sent in   *)
(* any case; an undeclared column name of a Condition appears in the       *)
(* statement sent, while an undeclared key of an insert value map is       *)
(* dropped: it does not appear in the statement, which is the one the map  *)
(* without that key gives.                                                 *)
C6_UnknownConditionPassedInsertDropped ==
    \A p \in Callers : InFlight(p) =>
        /\ Len(call[p].sent) = 1
        /\ call[p].op = "select" =>
              Unknown(p) \subseteq Tokens(call[p].sent[1].sql)
        /\ call[p].op = "insert" =>
              /\ Unknown(p) \cap Tokens(call[p].sent[1].sql) = {}
              /\ call[p].sent[1]
                   = InsertStatement(table, Restrict(call[p].values, Names(table)))

C6_Witness ==
    \E p \in Callers :
        /\ pc[p] = "returned" /\ call[p].op = "insert"
        /\ Unknown(p) = {"zz"}
        /\ call[p].result.ok
        /\ table = Items

C6_WitnessSelect ==
    \E p \in Callers :
        /\ pc[p] = "returned" /\ call[p].op = "select"
        /\ Unknown(p) = {"zz"}
        /\ ~call[p].result.ok /\ call[p].result.err = "Database"
        /\ ~call[p].fault

-----------------------------------------------------------------------------
(* Round trip and errors *)

\* condition is absent, or an Eq test on a declared column that row passes
MatchesRow(t, condition, row) ==
    \/ condition.kind = "None"
    \/ /\ condition.kind = "Eq"
       /\ condition.col \in Names(t)
       /\ row[condition.col] = condition.val

(* C7: once an insert of a value map m into the empty table has returned   *)
(* Ok, a select with no condition, or with an Eq condition the inserted    *)
(* row passes, that the executor answers returns exactly one row, holding  *)
(* for each declared column c the value m[c], or Value::Null when m has no *)
(* c.                                                                      *)
C7_RoundTrip ==
    \A p \in Callers :
        (/\ pc[p] = "returned" /\ call[p].op = "select" /\ ~call[p].fault
         /\ Len(store) = 1 /\ origin[1].acked
         /\ MatchesRow(table, call[p].condition, origin[1].expect))
        => /\ call[p].result.ok
           /\ call[p].result.rows = <<origin[1].expect>>

C7_Witness ==
    \E p \in Callers :
        /\ pc[p] = "returned" /\ call[p].op = "select" /\ ~call[p].fault
        /\ Len(store) = 1 /\ origin[1].acked
        /\ table = Items
        /\ call[p].condition = Eq("id", ValueInt(1))
        /\ call[p].result.ok
        /\ Len(call[p].result.rows) = 1
        /\ call[p].result.rows[1]["id"] = ValueInt(1)
        /\ call[p].result.rows[1]["name"] = ValueNull

C7_WitnessHello ==
    \E p \in Callers :
        /\ pc[p] = "returned" /\ call[p].op = "select" /\ ~call[p].fault
        /\ Len(store) = 1 /\ origin[1].acked
        /\ call[p].condition.kind = "None"
        /\ call[p].result.ok
        /\ Len(call[p].result.rows) = 1
        /\ call[p].result.rows[1]["id"] = ValueInt(1)
        /\ call[p].result.rows[1]["name"] = ValueText("x")

(* C8: a call sends exactly one statement; when the executor answers with  *)
(* an error the call returns that error, having sent nothing more, and a   *)
(* select that fails returns no rows.                                      *)
C8_OneStatementErrorSurfaced ==
    \A p \in Callers :
        /\ InFlight(p) => Len(call[p].sent) = 1
        /\ (pc[p] = "returned" /\ ~call[p].resp.ok) =>
              /\ ~call[p].result.ok
              /\ call[p].result.err = call[p].resp.err
        /\ (pc[p] = "returned" /\ ~call[p].result.ok) =>
              call[p].result.rows = <<>>

C8_Witness ==
    \E p \in Callers :
        /\ pc[p] = "returned" /\ call[p].op = "select"
        /\ ~call[p].resp.ok /\ call[p].resp.err = "Database"
        /\ call[p].result.err = "Database"

C8_WitnessPartial ==
    \E p \in Callers :
        /\ pc[p] = "returned" /\ call[p].op = "select"
        /\ call[p].resp.ok /\ Len(call[p].resp.rows) = 2
        /\ row_to_map(call[p].resp.rows[1], table.columns).ok
        /\ ~call[p].result.ok /\ call[p].result.rows = <<>>

-----------------------------------------------------------------------------
(* Callers side by side *)

\* the statement the call of p sends when it runs alone on the Table t
Alone(t, p) ==
    IF call[p].op = "insert" THEN InsertStatement(t, call[p].values)
    ELSE SelectStatement(t, call[p].condition)

(* C10: under every interleaving of the callers' insert and select calls   *)
(* the Table is the one constructed, a caller between two calls holds      *)
(* nothing of the call before, and every call has sent the statement text  *)
(* and arguments it sends when it runs alone.                              *)
C10_NoInterference ==
    /\ table = Items
    /\ \A p \in Callers :
          /\ InFlight(p) => call[p].sent = <<Alone(Items, p)>>
          /\ pc[p] = "idle" =>
                /\ call[p].op = "none" /\ call[p].sent = <<>>
                /\ DOMAIN call[p].values = {} /\ call[p].condition.kind = "None"

C10_Witness ==
    \E p, q \in Callers :
        /\ p # q
        /\ pc[p] = "await" /\ call[p].op = "insert"
        /\ pc[q] = "ready" /\ call[q].op = "select"
        /\ Len(call[q].sent[1].args) = 2
        /\ Len(store) = 1

====
